---- MODULE Spec2Model ----
(***************************************************************************)
(* Model of the bucket handlers of fake-gcs-server (package fakestorage)   *)
(* and of its response builders (fakestorage/response.go).                 *)
(*                                                                         *)
(* Strings that are compared or sorted (bucket names) are sequences of     *)
(* character codes, so that sort.Strings' byte-wise order is computed and  *)
(* the empty string is <<>>.  Other strings are TLA+ strings.  An optional *)
(* value (a nil-able pointer, a JSON field that may be missing) is a       *)
(* sequence of length 0 or 1.                                              *)
(***************************************************************************)
EXTENDS Integers, Sequences, FiniteSets, TLC

\* ---------------------------------------------------------------- bounds
MaxNameLen == 2
MaxBuckets == 2
MaxListLen == 3
MaxContentLen == 10
MaxACL == 2
MaxTime == 1

Chars == {1, 2}

RECURSIVE SeqsUpTo(_, _)
SeqsUpTo(S, n) ==
    IF n = 0 THEN {<<>>}
    ELSE LET shorter == SeqsUpTo(S, n - 1)
         IN  shorter \cup {Append(s, c) : s \in shorter, c \in S}

BucketNames == SeqsUpTo(Chars, MaxNameLen)

StatusOK == 200
StatusBadRequest == 400
StatusNotFound == 404
StatusInternalServerError == 500

\* ------------------------------------------------------- string ordering
RECURSIVE StrLess(_, _)
StrLess(a, b) ==
    IF a = <<>> THEN b # <<>>
    ELSE IF b = <<>> THEN FALSE
    ELSE IF a[1] # b[1] THEN a[1] < b[1]
    ELSE StrLess(Tail(a), Tail(b))

RECURSIVE InsertSorted(_, _)
InsertSorted(s, x) ==
    IF s = <<>> THEN <<x>>
    ELSE IF StrLess(x, Head(s)) THEN <<x>> \o s
    ELSE <<Head(s)>> \o InsertSorted(Tail(s), x)

RECURSIVE sortStrings(_)
sortStrings(s) ==
    IF s = <<>> THEN <<>>
    ELSE InsertSorted(sortStrings(Tail(s)), Head(s))

RECURSIVE SetToSeq(_)
SetToSeq(S) ==
    IF S = {} THEN <<>>
    ELSE LET x == CHOOSE y \in S : TRUE
         IN  <<x>> \o SetToSeq(S \ {x})

\* ------------------------------------------------------ storage backend
\* bs: the bucket table, a set of records [Name, VersioningEnabled].  Each
\* operation is one critical section.
BucketNamesOf(bs) == {b.Name : b \in bs}

Lookup(bs, name) == {b \in bs : b.Name = name}

BackendCreateBucket(bs, name, versioningEnabled) ==
    IF Lookup(bs, name) = {}
    THEN [buckets |-> bs \cup {[Name |-> name,
                                VersioningEnabled |-> versioningEnabled]},
          err |-> "nil"]
    ELSE IF \A b \in Lookup(bs, name) : b.VersioningEnabled = versioningEnabled
    THEN [buckets |-> bs, err |-> "nil"]
    ELSE [buckets |-> bs, err |-> "Conflict"]

BackendListBuckets(bs) ==
    [names |-> sortStrings(SetToSeq(BucketNamesOf(bs))), err |-> "nil"]

BackendGetBucket(bs, name) ==
    IF Lookup(bs, name) # {}
    THEN [bucket |-> <<CHOOSE b \in Lookup(bs, name) : TRUE>>, err |-> "nil"]
    ELSE [bucket |-> <<>>, err |-> "NotFound"]

\* -------------------------------------------------- http.ResponseWriter
\* status = 0: no header written yet.  headerWrites counts the status
\* lines put on the wire.
NewResponseWriter ==
    [status |-> 0, headerWrites |-> 0, contentType |-> "", body |-> <<>>]

WriteHeader(rw, code) ==
    IF rw.status # 0 THEN rw
    ELSE [rw EXCEPT !.status = code, !.headerWrites = @ + 1]

Write(rw, chunk) ==
    LET h == WriteHeader(rw, StatusOK)
    IN  [h EXCEPT !.body = Append(@, chunk)]

httpError(rw, message, code) ==
    Write(WriteHeader([rw EXCEPT !.contentType = "text/plain"], code),
          [format |-> "text", text |-> message])

Encode(rw, v) == Write(rw, [format |-> "json", value |-> v])

\* ----------------------------------------------------- response builders
newBucketResponse(bucketName) ==
    [Kind |-> "storage#bucket", ID |-> bucketName, Name |-> bucketName]

Reverse(s) == [i \in 1..Len(s) |-> s[Len(s) + 1 - i]]

newListBucketsResponse_descending(bucketNames) ==
    LET sorted == Reverse(sortStrings(bucketNames))
    IN  [resp |-> [Kind     |-> "storage#buckets",
                   Items    |-> [i \in 1..Len(bucketNames) |->
                                    newBucketResponse(sorted[i])],
                   Prefixes |-> <<>>],
         bucketNames |-> sorted]

\* sort.Strings sorts the caller's slice in place: the function yields the
\* response and the state of the argument after the call.
newListBucketsResponse(bucketNames) ==
    LET sorted == sortStrings(bucketNames)
    IN  [resp |-> [Kind     |-> "storage#buckets",
                   Items    |-> [i \in 1..Len(bucketNames) |->
                                    newBucketResponse(sorted[i])],
                   Prefixes |-> <<>>],
         bucketNames |-> sorted]

newErrorResponse(code, message, errs) ==
    [Error |-> [Code |-> code, Message |-> message, Errors |-> errs]]

\* ------------------------------------------------------------- requests
Bodies ==
    {[kind |-> "garbage", name |-> <<>>, versioning |-> <<>>]} \cup
    {[kind |-> "json", name |-> n, versioning |-> v] :
        n \in {<<>>} \cup {<<b>> : b \in BucketNames},
        v \in {<<>>} \cup {<<[Enabled |-> e]>> : e \in BOOLEAN}}

\* json.Decoder.Decode into the anonymous struct of createBucketByPost: a
\* missing field keeps the zero value of its Go type.
Decode(body) ==
    IF body.kind # "json"
    THEN [err |-> "invalid character", data |-> [Name |-> <<>>, Versioning |-> <<>>]]
    ELSE [err |-> "nil",
          data |-> [Name |-> IF body.name = <<>> THEN <<>> ELSE body.name[1],
                    Versioning |-> body.versioning]]

postVersioning_presence(data) == data.Versioning # <<>>

postVersioning(data) ==
    IF data.Versioning # <<>> THEN data.Versioning[1].Enabled ELSE FALSE

\* ---------------------------------------------------------------- state
\* buckets      the backend's bucket table
\* req          the request being answered
\* w            the http.ResponseWriter of that request
\* backendCall  the backend call the request made, if any
\* aborted      the process has panicked
\* firstFlag    history: the flag asked for at the first successful
\*              creation of each name
\* call         the last application of a response builder
VARIABLES buckets, req, w, backendCall, aborted, firstFlag, call

vars == <<buckets, req, w, backendCall, aborted, firstFlag, call>>

serverVars == <<buckets, req, w, backendCall, aborted, firstFlag>>

Init ==
    /\ buckets = {}
    /\ req = [op |-> "none"]
    /\ w = NewResponseWriter
    /\ backendCall = <<>>
    /\ aborted = FALSE
    /\ firstFlag = <<>>
    /\ call = [fn |-> "none"]

\* room in the bounded bucket table for a creation of name
Room(name) ==
    Lookup(buckets, name) # {} \/ Cardinality(buckets) < MaxBuckets

\* the versioning flag a creation request asks for
BodyFlag(body) ==
    IF body.versioning = <<>> THEN FALSE ELSE body.versioning[1].Enabled

Remember(name, asked, err) ==
    IF err = "nil" /\ name \notin DOMAIN firstFlag
    THEN [n \in DOMAIN firstFlag \cup {name} |->
             IF n = name THEN asked ELSE firstFlag[n]]
    ELSE firstFlag

CreateBucket(name, versioningEnabled) ==
    /\ ~aborted
    /\ Room(name)
    /\ LET r == BackendCreateBucket(buckets, name, versioningEnabled)
       IN  /\ buckets' = r.buckets
           /\ backendCall' = <<[fn |-> "CreateBucket", name |-> name,
                                versioningEnabled |-> versioningEnabled,
                                err |-> r.err]>>
           /\ aborted' = (r.err # "nil")
           /\ firstFlag' = Remember(name, versioningEnabled, r.err)
    /\ req' = [op |-> "CreateBucket", name |-> name,
               versioningEnabled |-> versioningEnabled]
    /\ w' = NewResponseWriter
    /\ UNCHANGED call

createBucketByPost(body) ==
    /\ ~aborted
    /\ req' = [op |-> "createBucketByPost", body |-> body]
    /\ LET d == Decode(body)
       IN  IF d.err # "nil"
           THEN /\ w' = httpError(NewResponseWriter, d.err, StatusBadRequest)
                /\ backendCall' = <<>>
                /\ UNCHANGED <<buckets, firstFlag>>
           ELSE LET name == d.data.Name
                    versioning == postVersioning(d.data)
                    r == BackendCreateBucket(buckets, name, versioning)
                IN  /\ Room(name)
                    /\ buckets' = r.buckets
                    /\ backendCall' = <<[fn |-> "CreateBucket", name |-> name,
                                         versioningEnabled |-> versioning,
                                         err |-> r.err]>>
                    /\ firstFlag' = Remember(name, BodyFlag(body), r.err)
                    /\ w' = IF r.err # "nil"
                            THEN httpError(NewResponseWriter, r.err,
                                           StatusInternalServerError)
                            ELSE Encode(NewResponseWriter, newBucketResponse(name))
    /\ UNCHANGED <<aborted, call>>

listBuckets ==
    /\ ~aborted
    /\ req' = [op |-> "listBuckets"]
    /\ LET r == BackendListBuckets(buckets)
       IN  /\ backendCall' = <<[fn |-> "ListBuckets", err |-> r.err]>>
           /\ w' = IF r.err # "nil"
                   THEN httpError(NewResponseWriter, r.err,
                                  StatusInternalServerError)
                   ELSE Encode(NewResponseWriter,
                               newListBucketsResponse(r.names).resp)
    /\ UNCHANGED <<buckets, aborted, firstFlag, call>>

getBucketResponse_noHeader(r) ==
    IF r.err # "nil"
    THEN Encode(NewResponseWriter,
                newErrorResponse(StatusNotFound, "Not found", <<>>))
    ELSE Encode(WriteHeader(NewResponseWriter, StatusOK),
                newBucketResponse(r.bucket[1].Name))

\* the bucket's VersioningEnabled is passed along by the handler but is not
\* a member of bucketResponse
getBucketResponse(r) ==
    IF r.err # "nil"
    THEN Encode(WriteHeader(NewResponseWriter, StatusNotFound),
                newErrorResponse(StatusNotFound, "Not found", <<>>))
    ELSE Encode(WriteHeader(NewResponseWriter, StatusOK),
                newBucketResponse(r.bucket[1].Name))

getBucket(bucketName) ==
    /\ ~aborted
    /\ req' = [op |-> "getBucket", bucketName |-> bucketName]
    /\ LET r == BackendGetBucket(buckets, bucketName)
       IN  /\ backendCall' = <<[fn |-> "GetBucket", name |-> bucketName,
                                err |-> r.err]>>
           /\ w' = getBucketResponse(r)
    /\ UNCHANGED <<buckets, aborted, firstFlag, call>>

Next ==
    \/ \E n \in BucketNames, v \in BOOLEAN : CreateBucket(n, v)
    \/ \E b \in Bodies : createBucketByPost(b)
    \/ listBuckets
    \/ \E n \in BucketNames : getBucket(n)

Spec == Init /\ [][Next]_vars

\* ------------------------------------------------- bucket handler claims
LastCreate ==
    backendCall # <<>> /\ backendCall[1].fn = "CreateBucket"

\* the flag the request being answered asked for
AskedFlag ==
    IF req.op = "CreateBucket" THEN req.versioningEnabled ELSE BodyFlag(req.body)

\* the body is exactly one JSON document, the Error Envelope with this code
IsErrorEnvelope(body, code) ==
    /\ Len(body) = 1
    /\ body[1].format = "json"
    /\ DOMAIN body[1].value = {"Error"}
    /\ DOMAIN body[1].value.Error = {"Code", "Message", "Errors"}
    /\ body[1].value.Error.Code = code

IsBucketResponse(body, name) ==
    /\ Len(body) = 1
    /\ body[1].format = "json"
    /\ body[1].value = [Kind |-> "storage#bucket", ID |-> name, Name |-> name]

\* C1: a creation that conflicts with an existing bucket's versioning flag,
\* through Server.CreateBucket or createBucketByPost, yields the Conflict
\* error and leaves the process running.
C1_ConflictNeverAborts ==
    (LastCreate /\ backendCall[1].err = "Conflict") => ~aborted

\* C2: every failure response of the bucket handlers carries the Error
\* Envelope {error:{code,message,errors}} with code equal to the status sent.
C2_FailuresUseErrorEnvelope ==
    (req.op \in {"createBucketByPost", "listBuckets", "getBucket"}
        /\ w.status >= StatusBadRequest)
    => IsErrorEnvelope(w.body, w.status)

\* C3: getBucket answers 404 with an Error Envelope of code 404 and a
\* non-empty message when the name is not in the backend, 200 with the
\* Bucket response of the name when it is, and writes exactly one status.
C3_GetBucketFoundOrNotFound ==
    req.op = "getBucket" =>
        /\ w.headerWrites = 1
        /\ IF req.bucketName \in BucketNamesOf(buckets)
           THEN /\ w.status = StatusOK
                /\ IsBucketResponse(w.body, req.bucketName)
           ELSE /\ w.status = StatusNotFound
                /\ IsErrorEnvelope(w.body, StatusNotFound)
                /\ w.body[1].value.Error.Message # ""

C3_Witness ==
    /\ req.op = "getBucket"
    /\ buckets # {}
    /\ req.bucketName \notin BucketNamesOf(buckets)
    /\ w.status = StatusNotFound

\* C4: the backend holds one bucket per name ever successfully created, each
\* with the flag asked for at its first successful creation; a repeat with
\* the same flag succeeds, a repeat with another flag returns Conflict.
C4_BucketsKeepFirstFlag ==
    /\ \A b1, b2 \in buckets : b1.Name = b2.Name => b1 = b2
    /\ BucketNamesOf(buckets) = DOMAIN firstFlag
    /\ \A b \in buckets : b.VersioningEnabled = firstFlag[b.Name]
    /\ LastCreate =>
          /\ backendCall[1].name \in DOMAIN firstFlag
          /\ backendCall[1].err =
                IF firstFlag[backendCall[1].name] = AskedFlag
                THEN "nil" ELSE "Conflict"

C4_Witness ==
    /\ req.op = "createBucketByPost"
    /\ LastCreate
    /\ backendCall[1].err = "Conflict"
    /\ Cardinality(buckets) = MaxBuckets
    /\ \E b \in buckets : b.Name = backendCall[1].name
                           /\ b.VersioningEnabled # AskedFlag

\* C5: the list-buckets response has kind storage#buckets and one Bucket
\* response per bucket of the backend, in ascending order of name.
C5_ListBucketsSortedComplete ==
    req.op = "listBuckets" =>
        /\ Len(w.body) = 1
        /\ w.body[1].format = "json"
        /\ LET resp == w.body[1].value
           IN  /\ resp.Kind = "storage#buckets"
               /\ Len(resp.Items) = Cardinality(buckets)
               /\ \A b \in buckets : \E i \in 1..Len(resp.Items) :
                     resp.Items[i] = [Kind |-> "storage#bucket",
                                      ID |-> b.Name, Name |-> b.Name]
               /\ \A i, j \in 1..Len(resp.Items) :
                     i < j => StrLess(resp.Items[i].Name, resp.Items[j].Name)

C5_Witness ==
    /\ req.op = "listBuckets"
    /\ Cardinality(buckets) = MaxBuckets
    /\ Len(w.body[1].value.Items) = MaxBuckets

\* C8: a create-bucket POST whose body is not decodable JSON or lacks the
\* name field is answered 400 without a call of the backend's CreateBucket.
C8_InvalidArgumentIs400 ==
    (req.op = "createBucketByPost"
        /\ (req.body.kind # "json" \/ req.body.name = <<>>))
    => (w.status = StatusBadRequest /\ backendCall = <<>>)

\* ------------------------------------------------------ object builders
\* time.Time: seconds after the zero time 0001-01-01T00:00:00Z.
DigitChars == <<"0", "1", "2", "3", "4", "5", "6", "7", "8", "9">>

RECURSIVE FormatInt(_)
FormatInt(n) ==
    IF n < 10 THEN DigitChars[n + 1]
    ELSE FormatInt(n \div 10) \o DigitChars[(n % 10) + 1]

Pad2(n) == DigitChars[(n \div 10) + 1] \o DigitChars[(n % 10) + 1]

FormatRFC3339(t) ==
    "0001-01-01T00:" \o Pad2((t \div 60) % 60) \o ":" \o Pad2(t % 60) \o "Z"

id(obj) == obj.BucketName \o "/" \o obj.Name

getAccessControlsListFromObject_append(obj) ==
    [idx \in 1..(2 * Len(obj.ACL)) |->
        IF idx <= Len(obj.ACL) THEN <<>>
        ELSE <<[Bucket |-> obj.BucketName,
                Entity |-> obj.ACL[idx - Len(obj.ACL)].Entity,
                Object |-> obj.Name,
                Role   |-> obj.ACL[idx - Len(obj.ACL)].Role]>>]

\* a slice of pointers: each element is <<>> (nil) or <<item>>
getAccessControlsListFromObject(obj) ==
    [idx \in 1..Len(obj.ACL) |->
        <<[Bucket |-> obj.BucketName,
           Entity |-> obj.ACL[idx].Entity,
           Object |-> obj.Name,
           Role   |-> obj.ACL[idx].Role]>>]

newObjectResponse(obj) ==
    [Kind            |-> "storage#object",
     ID              |-> id(obj),
     Bucket          |-> obj.BucketName,
     Name            |-> obj.Name,
     Size            |-> Len(obj.Content),
     ContentType     |-> obj.ContentType,
     ContentEncoding |-> obj.ContentEncoding,
     Crc32c          |-> obj.Crc32c,
     Md5Hash         |-> obj.Md5Hash,
     ACL             |-> getAccessControlsListFromObject(obj),
     TimeCreated     |-> FormatRFC3339(obj.Created),
     TimeDeleted     |-> FormatRFC3339(obj.Deleted),
     Updated         |-> FormatRFC3339(obj.Updated)]

\* the embedded *storage.ObjectAccessControls is <<>> (nil) or <<value>>
newACLListResponse(obj) ==
    IF Len(obj.ACL) = 0
    THEN [ObjectAccessControls |-> <<>>]
    ELSE [ObjectAccessControls |->
            <<[HTTPStatusCode |-> StatusOK,
               Items |-> getAccessControlsListFromObject(obj)]>>]

newObjectRewriteResponse_noObjectSize(obj) ==
    [Kind                |-> "storage#rewriteResponse",
     TotalBytesRewritten |-> Len(obj.Content),
     ObjectSize          |-> 0,
     Done                |-> TRUE,
     RewriteToken        |-> "",
     Resource            |-> newObjectResponse(obj)]

newObjectRewriteResponse(obj) ==
    [Kind                |-> "storage#rewriteResponse",
     TotalBytesRewritten |-> Len(obj.Content),
     ObjectSize          |-> Len(obj.Content),
     Done                |-> TRUE,
     RewriteToken        |-> "",
     Resource            |-> newObjectResponse(obj)]

\* ---------------------------------------------------------- JSON encoding
\* encoding/json under the struct tags: a JSON object is a function from
\* the member names it emits to tagged values.
JString(s) == [t |-> "string", v |-> s]
JBool(b) == [t |-> "bool", v |-> b]
JInt64String(n) == [t |-> "string", v |-> FormatInt(n)]
JOmitEmptyString(key, s) == IF s = "" THEN <<>> ELSE key :> JString(s)

objectResponseJSON(r) ==
    ("kind" :> JString(r.Kind))
    @@ ("name" :> JString(r.Name))
    @@ ("id" :> JString(r.ID))
    @@ ("bucket" :> JString(r.Bucket))
    @@ ("size" :> JInt64String(r.Size))
    @@ JOmitEmptyString("contentType", r.ContentType)
    @@ JOmitEmptyString("contentEncoding", r.ContentEncoding)
    @@ JOmitEmptyString("crc32c", r.Crc32c)
    @@ (IF Len(r.ACL) = 0 THEN <<>>
        ELSE "acl" :> [t |-> "array", v |-> r.ACL])
    @@ JOmitEmptyString("md5hash", r.Md5Hash)
    @@ JOmitEmptyString("timeCreated", r.TimeCreated)
    @@ JOmitEmptyString("timeDeleted", r.TimeDeleted)
    @@ JOmitEmptyString("updated", r.Updated)

rewriteResponseJSON(r) ==
    ("kind" :> JString(r.Kind))
    @@ ("totalBytesRewritten" :> JInt64String(r.TotalBytesRewritten))
    @@ ("objectSize" :> JInt64String(r.ObjectSize))
    @@ ("done" :> JBool(r.Done))
    @@ ("rewriteToken" :> JString(r.RewriteToken))
    @@ ("resource" :> [t |-> "object", v |-> objectResponseJSON(r.Resource)])

\* ------------------------------------------------------- builder inputs
ACLRules ==
    {[Entity |-> "allUsers", Role |-> "READER"],
     [Entity |-> "user-1", Role |-> "OWNER"]}

Times == 0..MaxTime

AllObjects ==
    [BucketName      : {"b"},
     Name            : {"o"},
     Content         : {[i \in 1..n |-> 0] : n \in 0..MaxContentLen},
     ContentType     : {"", "text/plain"},
     ContentEncoding : {"", "gzip"},
     Crc32c          : {"", "n03x6A=="},
     Md5Hash         : {"", "XUFAKrxLKna5cZ2REBfFkg=="},
     ACL             : SeqsUpTo(ACLRules, MaxACL),
     Created         : Times,
     Updated         : Times,
     Deleted         : Times]

\* an object is never updated before it is created
Objects == {o \in AllObjects : o.Created <= o.Updated}

IsInjective(s) == \A i, j \in 1..Len(s) : i # j => s[i] # s[j]

NameLists == {s \in SeqsUpTo(BucketNames, MaxListLen) : IsInjective(s)}

\* ------------------------------------------------- builder specification
\* One builder is applied to one input drawn at the start.
BuilderInit ==
    /\ buckets = {}
    /\ req = [op |-> "none"]
    /\ w = NewResponseWriter
    /\ backendCall = <<>>
    /\ aborted = FALSE
    /\ firstFlag = <<>>
    /\ \/ \E o \in Objects : call = [fn |-> "none", kind |-> "object", arg |-> o]
       \/ \E s \in NameLists : call = [fn |-> "none", kind |-> "names", arg |-> s]

ApplyNewListBucketsResponse ==
    /\ call.fn = "none" /\ call.kind = "names"
    /\ LET r == newListBucketsResponse(call.arg)
       IN  call' = [fn |-> "newListBucketsResponse", arg |-> call.arg,
                    argAfter |-> r.bucketNames, ret |-> r.resp, json |-> <<>>]
    /\ UNCHANGED serverVars

ApplyNewObjectResponse ==
    /\ call.fn = "none" /\ call.kind = "object"
    /\ LET r == newObjectResponse(call.arg)
       IN  call' = [fn |-> "newObjectResponse", arg |-> call.arg,
                    argAfter |-> call.arg, ret |-> r,
                    json |-> objectResponseJSON(r)]
    /\ UNCHANGED serverVars

ApplyNewACLListResponse ==
    /\ call.fn = "none" /\ call.kind = "object"
    /\ LET r == newACLListResponse(call.arg)
       IN  call' = [fn |-> "newACLListResponse", arg |-> call.arg,
                    argAfter |-> call.arg, ret |-> r, json |-> <<>>]
    /\ UNCHANGED serverVars

ApplyNewObjectRewriteResponse ==
    /\ call.fn = "none" /\ call.kind = "object"
    /\ LET r == newObjectRewriteResponse(call.arg)
       IN  call' = [fn |-> "newObjectRewriteResponse", arg |-> call.arg,
                    argAfter |-> call.arg, ret |-> r,
                    json |-> rewriteResponseJSON(r)]
    /\ UNCHANGED serverVars

BuilderNext ==
    \/ ApplyNewListBucketsResponse
    \/ ApplyNewObjectResponse
    \/ ApplyNewACLListResponse
    \/ ApplyNewObjectRewriteResponse

BuilderSpec == BuilderInit /\ [][BuilderNext]_vars

\* -------------------------------------------------------- builder claims
\* C6: the ACL list response has no items collection for an object without
\* ACL entries and otherwise one non-null item per entry, in order, with
\* the entry's entity and role and the object's bucket and name.
C6_ACLListHasNoNullItem ==
    call.fn = "newACLListResponse" =>
        LET obj == call.arg
            oac == call.ret.ObjectAccessControls
        IN  IF Len(obj.ACL) = 0
            THEN oac = <<>>
            ELSE /\ Len(oac) = 1
                 /\ Len(oac[1].Items) = Len(obj.ACL)
                 /\ \A i \in 1..Len(oac[1].Items) :
                       oac[1].Items[i] =
                           <<[Bucket |-> obj.BucketName,
                              Entity |-> obj.ACL[i].Entity,
                              Object |-> obj.Name,
                              Role   |-> obj.ACL[i].Role]>>

C6_Witness ==
    /\ call.fn = "newACLListResponse"
    /\ Len(call.arg.ACL) = MaxACL
    /\ call.arg.ACL[1] # call.arg.ACL[MaxACL]
    /\ Len(call.ret.ObjectAccessControls[1].Items) = MaxACL

\* C7: the rewrite response has kind storage#rewriteResponse, done true, an
\* empty rewriteToken, and totalBytesRewritten, objectSize and resource.size
\* all the content length as a decimal string; resource is the Object
\* response of the object.
C7_RewriteResponseSizes ==
    call.fn = "newObjectRewriteResponse" =>
        LET size == [t |-> "string", v |-> ToString(Len(call.arg.Content))]
            j == call.json
        IN  /\ j["kind"] = [t |-> "string", v |-> "storage#rewriteResponse"]
            /\ j["done"] = [t |-> "bool", v |-> TRUE]
            /\ j["rewriteToken"] = [t |-> "string", v |-> ""]
            /\ j["totalBytesRewritten"] = size
            /\ j["objectSize"] = size
            /\ j["resource"].t = "object"
            /\ j["resource"].v["size"] = size
            /\ j["resource"].v["kind"] = [t |-> "string", v |-> "storage#object"]
            /\ call.ret.Resource = newObjectResponse(call.arg)

C7_Witness ==
    /\ call.fn = "newObjectRewriteResponse"
    /\ Len(call.arg.Content) = MaxContentLen
    /\ call.json["objectSize"].v = ToString(MaxContentLen)

\* C9: a response builder leaves its input as it was before the call.
C9_BuildersLeaveInputUnchanged ==
    call.fn # "none" => call.argAfter = call.arg

\* C10: the Object response omits contentType, contentEncoding, crc32c,
\* md5Hash and acl when they are empty, and has timeDeleted exactly when
\* the object is tombstoned.
C10_AbsentOptionalFieldsOmitted ==
    call.fn = "newObjectResponse" =>
        LET obj == call.arg
            keys == DOMAIN call.json
        IN  /\ obj.ContentType = "" => "contentType" \notin keys
            /\ obj.ContentEncoding = "" => "contentEncoding" \notin keys
            /\ obj.Crc32c = "" => "crc32c" \notin keys
            /\ obj.Md5Hash = "" => keys \cap {"md5Hash", "md5hash"} = {}
            /\ Len(obj.ACL) = 0 => "acl" \notin keys
            /\ (obj.Deleted = 0) <=> ("timeDeleted" \notin keys)
====
